---- MODULE Spec2Model ----
(***************************************************************************)
(* Model of the DMF backend's service layer:                               *)
(*   - services/lifeSkillTrainer.service.js (scheduleVisit, deleteVisit,   *)
(*     updateVisitById, getVisitById, getVisitsBySchoolId,                 *)
(*     getSchoolIdsAndStudentCount)                                        *)
(*   - the school service (bulkUpload) and the School schema.              *)
(* Every async handler is split at its awaits: one action per database     *)
(* read, database write or notification dispatch, so that requests can     *)
(* interleave exactly where the event loop lets them.                      *)
(***************************************************************************)
EXTENDS Integers, Sequences, FiniteSets, TLC

\* ------------------------------------------------------------------ bounds
\* Number of visit ids that may ever be handed out (ObjectIds are never reused).
MaxVisits == 3
\* Number of Student documents that may ever be created.
MaxStudents == 2

\* Number of records in one bulkUpload batch.
MaxBatch == 2
\* Number of School documents that may ever be stored.
MaxSchools == 3

\* Request slots that may run concurrently.
Procs == {1, 2}
\* bulkUpload calls that may run concurrently.
BulkCalls == {1, 2}
VisitIds == 1..MaxVisits

\* ------------------------------------------------------------ input domains
\* User ids 1 and 2 are trainers that exist; id 3 is a well-formed id that
\* resolves to no User.
ExistingTrainers == {1, 2}
TrainerIds == {1, 2, 3}
SchoolIds == {"SCH1", "SCH2"}
VisitDates == {"2024-01-10", "2024-01-11"}
Times == {"09:00"}

\* External school identifiers of the uploaded records, and the ids that
\* generateSchoolId may draw ('SCH' + a random number: two draws may coincide).
Udises == {"U1", "U2", "U3"}
GeneratedIds == {"SCH1", "SCH2"}

\* The roles a User may have.
Roles == {"admin", "school", "superadmin", "student", "trainer", "block_officer"}

AttFields == {"inTime", "outTime", "inDate", "outDate", "file", "file1"}

VARIABLES
  visits,     \* the LifeTrainerVisit collection: a set of documents
  nextVisit,  \* the next fresh visit _id
  users,      \* the User collection: _id -> document
  students,   \* the Student collection: a set of documents
  schools,    \* the School collection: documents in insertion order
  call,       \* per request slot: the running handler, its position and locals
  bulk        \* per bulkUpload call: its batch, its per-record tasks, its lists

vars == <<visits, nextVisit, users, students, schools, call, bulk>>
\* What a step of the visit service that only reads leaves alone.
db == <<visits, nextVisit, users, students, schools, bulk>>

Idle == [op |-> "idle"]

\* ------------------------------------------------------------------ helpers
\* new LifeTrainerVisit({trainer, schoolId, visitDate, time}): the attendance
\* fields start unset ("" stands for every falsy value), status starts at the
\* schema default.
DefaultStatus == "scheduled"

NewVisit(id, trainerId, schoolId, visitDate, time) ==
  [_id |-> id, trainer |-> trainerId, schoolId |-> schoolId,
   visitDate |-> visitDate, time |-> time, status |-> DefaultStatus,
   inTime |-> "", outTime |-> "", inDate |-> "", outDate |-> "",
   file |-> "", file1 |-> ""]

\* LifeTrainerVisit.findOne({trainer, schoolId, visitDate, time}): the matches.
SlotMatches(vs, trainerId, schoolId, visitDate, time) ==
  {v \in vs : /\ v.trainer = trainerId
              /\ v.schoolId = schoolId
              /\ v.visitDate = visitDate
              /\ v.time = time}

\* LifeTrainerVisit.findById(id): the matches (at most one).
ById(vs, id) == {v \in vs : v._id = id}

\* trainer.visits.push(id); trainer.save(): an atomic $push on the stored array.
Push(us, trainerId, id) ==
  IF trainerId \in DOMAIN us
  THEN [us EXCEPT ![trainerId].visits = Append(@, id)]
  ELSE us

\* Mutation of Pull: the back-reference is left in the trainer's array.
Pull_Kept(us, trainerId, id) == us

\* trainer.visits.pull(id); trainer.save(): an atomic $pullAll on the stored array.
Pull(us, trainerId, id) ==
  IF trainerId \in DOMAIN us
  THEN [us EXCEPT ![trainerId].visits = SelectSeq(@, LAMBDA x : x # id)]
  ELSE us

Range(s) == {s[i] : i \in DOMAIN s}

\* A handler returns or throws: its slot keeps the outcome until Return.
Finish(p, status, value) ==
  call' = [call EXCEPT ![p] = [@ EXCEPT !.pc = "done"] @@
                                [res |-> status, value |-> value]]

\* Snapshot of the persisted state when a handler is entered (history only;
\* kept by the one-request-at-a-time specifications, whose claims compare the
\* state after a call with the state before it).
Snapshot(hist) ==
  IF hist THEN [visits |-> visits, users |-> users] ELSE [none |-> TRUE]

\* Number of scheduleVisit calls that have not yet saved their visit.
PendingSaves ==
  Cardinality({q \in Procs : /\ call[q].op = "scheduleVisit"
                             /\ call[q].pc \in {"findOne", "visitSave"}})

\* --------------------------------------------------------------------- Init
Init ==
  /\ visits = {}
  /\ nextVisit = 1
  /\ users = [t \in ExistingTrainers |->
                [role |-> "trainer", deviceToken |-> (t = 1),
                 username |-> "trainer", firstName |-> t, lastName |-> t,
                 mobNumber |-> t, visits |-> <<>>]]
  /\ students = {}
  /\ schools = <<>>
  /\ call = [p \in Procs |-> Idle]
  /\ bulk = [b \in BulkCalls |-> Idle]

\* ------------------------------------------------------------ scheduleVisit
SV_Start(p, trainerId, schoolId, visitDate, time, hist) ==
  /\ call[p].op = "idle"
  /\ nextVisit + PendingSaves <= MaxVisits
  /\ call' = [call EXCEPT ![p] =
       [op |-> "scheduleVisit", pc |-> "findOne", trainerId |-> trainerId,
        schoolId |-> schoolId, visitDate |-> visitDate, time |-> time,
        pre |-> Snapshot(hist)]]
  /\ UNCHANGED db

\* const existingVisit = await LifeTrainerVisit.findOne({...}); if (existingVisit) throw CONFLICT
SV_FindOne(p) ==
  /\ call[p].op = "scheduleVisit" /\ call[p].pc = "findOne"
  /\ LET c == call[p] IN
     IF SlotMatches(visits, c.trainerId, c.schoolId, c.visitDate, c.time) # {}
     THEN Finish(p, "CONFLICT", 0)
     ELSE call' = [call EXCEPT ![p].pc = "visitSave"]
  /\ UNCHANGED db

\* const visit = new LifeTrainerVisit({...}); await visit.save();
SV_VisitSave(p) ==
  /\ call[p].op = "scheduleVisit" /\ call[p].pc = "visitSave"
  /\ LET c == call[p] IN
     /\ visits' = visits \cup
          {NewVisit(nextVisit, c.trainerId, c.schoolId, c.visitDate, c.time)}
     /\ nextVisit' = nextVisit + 1
     /\ call' = [call EXCEPT ![p] = [@ EXCEPT !.pc = "findTrainer"] @@
                                     [visit |-> nextVisit]]
  /\ UNCHANGED <<users, students, schools, bulk>>

\* const trainer = await User.findById(trainerId); if (!trainer) throw NOT_FOUND;
\* trainer.visits.push(visit._id); if (deviceToken) ... else straight to save
SV_FindTrainer(p) ==
  /\ call[p].op = "scheduleVisit" /\ call[p].pc = "findTrainer"
  /\ LET c == call[p] IN
     IF c.trainerId \notin DOMAIN users
     THEN Finish(p, "NOT_FOUND", 0)
     ELSE call' = [call EXCEPT ![p].pc =
                     IF users[c.trainerId].deviceToken THEN "notify"
                     ELSE "trainerSave"]
  /\ UNCHANGED db

\* await sendNotification(deviceToken, title, body): admin.messaging().send
\* resolves or rejects; a rejection is not caught and leaves the handler.
SV_Notify(p) ==
  /\ call[p].op = "scheduleVisit" /\ call[p].pc = "notify"
  /\ \E delivered \in BOOLEAN :
       IF delivered
       THEN call' = [call EXCEPT ![p].pc = "trainerSave"]
       ELSE Finish(p, "SEND_FAILED", 0)
  /\ UNCHANGED db

\* await trainer.save(); return visit;
SV_TrainerSave(p) ==
  /\ call[p].op = "scheduleVisit" /\ call[p].pc = "trainerSave"
  /\ users' = Push(users, call[p].trainerId, call[p].visit)
  /\ Finish(p, "ok", call[p].visit)
  /\ UNCHANGED <<visits, nextVisit, students, schools, bulk>>

\* -------------------------------------------------------------- deleteVisit
DV_Start(p, visitId, hist) ==
  /\ call[p].op = "idle"
  /\ call' = [call EXCEPT ![p] =
       [op |-> "deleteVisit", pc |-> "findById", visitId |-> visitId,
        pre |-> Snapshot(hist)]]
  /\ UNCHANGED db

\* const visit = await LifeTrainerVisit.findById(visitId); if (!visit) throw NOT_FOUND
DV_FindById(p) ==
  /\ call[p].op = "deleteVisit" /\ call[p].pc = "findById"
  /\ IF ById(visits, call[p].visitId) = {}
     THEN Finish(p, "NOT_FOUND", 0)
     ELSE \E v \in ById(visits, call[p].visitId) :
            call' = [call EXCEPT ![p] = [@ EXCEPT !.pc = "findTrainer"] @@
                                            [visit |-> v]]
  /\ UNCHANGED db

\* const trainer = await User.findById(visit.trainer); if (!trainer) throw NOT_FOUND
DV_FindTrainer(p) ==
  /\ call[p].op = "deleteVisit" /\ call[p].pc = "findTrainer"
  /\ IF call[p].visit.trainer \notin DOMAIN users
     THEN Finish(p, "NOT_FOUND", 0)
     ELSE call' = [call EXCEPT ![p].pc = "trainerSave"]
  /\ UNCHANGED db

\* trainer.visits.pull(visitId); await trainer.save();
DV_TrainerSave(p) ==
  /\ call[p].op = "deleteVisit" /\ call[p].pc = "trainerSave"
  /\ users' = Pull(users, call[p].visit.trainer, call[p].visitId)
  /\ call' = [call EXCEPT ![p].pc = "remove"]
  /\ UNCHANGED <<visits, nextVisit, students, schools, bulk>>

\* await visit.remove(); return visit;
DV_Remove(p) ==
  /\ call[p].op = "deleteVisit" /\ call[p].pc = "remove"
  /\ visits' = {v \in visits : v._id # call[p].visitId}
  /\ Finish(p, "ok", call[p].visitId)
  /\ UNCHANGED <<nextVisit, users, students, schools, bulk>>

\* ---------------------------------------------------------- updateVisitById
\* Object.assign(target, source): the source's own fields overwrite the target's.
Assign(doc, body) ==
  [f \in DOMAIN doc |-> IF f \in DOMAIN body THEN body[f] ELSE doc[f]]

\* JavaScript truthiness of a string field ("" stands for unset, null and '').
Truthy(x) == x # ""

\* Mutation of AllAttended: || where the code has &&.
AllAttended_Any(doc) == \E f \in AttFields : Truthy(doc[f])

\* if (inTime && outTime && inDate && outDate && file && file1)
AllAttended(doc) == \A f \in AttFields : Truthy(doc[f])

\* doc.save() of an existing document: $set of the given paths on the stored
\* document with the same _id (nothing is stored when it is gone).
SaveFields(vs, doc, paths) ==
  {IF v._id = doc._id
   THEN [f \in DOMAIN v |-> IF f \in paths THEN doc[f] ELSE v[f]]
   ELSE v : v \in vs}

\* LifeTrainerVisit.findOne({schoolId, trainer}): the matches.
PairMatches(vs, schoolId, trainer) ==
  {v \in vs : v.schoolId = schoolId /\ v.trainer = trainer}

UV_Start(p, schoolId, trainer, updateBody, hist) ==
  /\ call[p].op = "idle"
  /\ call' = [call EXCEPT ![p] =
       [op |-> "updateVisitById", pc |-> "findOne", schoolId |-> schoolId,
        trainer |-> trainer, updateBody |-> updateBody, pre |-> Snapshot(hist)]]
  /\ UNCHANGED db

\* const result = await LifeTrainerVisit.findOne({ schoolId, trainer });
\* if (!result) throw NOT_FOUND.  findOne has no sort: any match may come back.
UV_FindOne(p) ==
  /\ call[p].op = "updateVisitById" /\ call[p].pc = "findOne"
  /\ LET found == PairMatches(visits, call[p].schoolId, call[p].trainer) IN
     IF found = {}
     THEN Finish(p, "NOT_FOUND", 0)
     ELSE \E v \in found :
            call' = [call EXCEPT ![p] = [@ EXCEPT !.pc = "save"] @@
                                            [result |-> v]]
  /\ UNCHANGED db

\* Object.assign(result, updateBody); await result.save();
\* then the completion test on the in-memory document.
UV_Save(p) ==
  /\ call[p].op = "updateVisitById" /\ call[p].pc = "save"
  /\ LET c == call[p]
         modified == {f \in DOMAIN c.updateBody : c.updateBody[f] # c.result[f]}
         assigned == Assign(c.result, c.updateBody)
     IN
     /\ visits' = SaveFields(visits, assigned, modified)
     /\ IF AllAttended(assigned)
        THEN call' = [call EXCEPT ![p].pc = "saveStatus", ![p].result = assigned]
        ELSE call' = [call EXCEPT ![p] = [@ EXCEPT !.pc = "done", !.result = assigned]
                                           @@ [res |-> "ok", value |-> assigned]]
  /\ UNCHANGED <<nextVisit, users, students, schools, bulk>>

\* result.status = 'completed'; await result.save(); return result;
UV_SaveStatus(p) ==
  /\ call[p].op = "updateVisitById" /\ call[p].pc = "saveStatus"
  /\ LET c == call[p]
         modified == IF c.result.status # "completed" THEN {"status"} ELSE {}
         completed == [c.result EXCEPT !.status = "completed"]
     IN
     /\ visits' = SaveFields(visits, completed, modified)
     /\ Finish(p, "ok", completed)
  /\ UNCHANGED <<nextVisit, users, students, schools, bulk>>

\* ------------------------------------------------------------- getVisitById
Null == [null |-> TRUE]

\* LifeTrainerVisit.findById(id): the document, or null.
FindById(vs, id) ==
  IF ById(vs, id) = {} THEN Null ELSE CHOOSE v \in ById(vs, id) : TRUE

\* return LifeTrainerVisit.findById(id);
GetVisitById(p, id) ==
  /\ call[p].op = "idle"
  /\ call' = [call EXCEPT ![p] =
       [op |-> "getVisitById", pc |-> "done", id |-> id, res |-> "ok",
        value |-> FindById(visits, id)]]
  /\ UNCHANGED db

\* ------------------------------------------------------ getVisitsBySchoolId
\* The documents of a find() in _id order.
RECURSIVE SortById(_)
SortById(vs) ==
  IF vs = {} THEN <<>>
  ELSE LET m == CHOOSE v \in vs : \A w \in vs : v._id <= w._id
       IN <<m>> \o SortById(vs \ {m})

\* User.findOne({ _id, role }).select('firstName lastName mobNumber')
FindCounselor(us, id, role) ==
  IF id \in DOMAIN us /\ us[id].role = role
  THEN [firstName |-> us[id].firstName, lastName |-> us[id].lastName,
        mobNumber |-> us[id].mobNumber]
  ELSE Null

\* The role the counselor lookup filters on.
CounselorRole == "skillTrainer"

GS_Start(p, schoolId) ==
  /\ call[p].op = "idle"
  /\ call' = [call EXCEPT ![p] =
       [op |-> "getVisitsBySchoolId", pc |-> "find", schoolId |-> schoolId]]
  /\ UNCHANGED db

\* const visits = await LifeTrainerVisit.find({ schoolId });
\* if (!visits || visits.length === 0) throw NOT_FOUND
GS_Find(p) ==
  /\ call[p].op = "getVisitsBySchoolId" /\ call[p].pc = "find"
  /\ LET found == SortById({v \in visits : v.schoolId = call[p].schoolId}) IN
     IF Len(found) = 0
     THEN Finish(p, "NOT_FOUND", 0)
     ELSE call' = [call EXCEPT ![p] = [@ EXCEPT !.pc = "loop"] @@
                     [visits |-> found, populatedVisits |-> <<>>]]
  /\ UNCHANGED db

\* for (const visit of visits) { counselor = await User.findOne(...);
\*   populatedVisits.push({ visit, counselor, createdAt }); }
GS_Loop(p) ==
  /\ call[p].op = "getVisitsBySchoolId" /\ call[p].pc = "loop"
  /\ LET c == call[p]
         i == Len(c.populatedVisits) + 1
     IN
     IF i > Len(c.visits)
     THEN Finish(p, "ok", c.populatedVisits)
     ELSE call' = [call EXCEPT ![p].populatedVisits =
            Append(@, [visit |-> c.visits[i],
                       counselor |-> FindCounselor(users, c.visits[i].trainer,
                                                   CounselorRole)])]
  /\ UNCHANGED db

\* ---------------------------------------------- getSchoolIdsAndStudentCount
\* [...new Set(visits.map((visit) => visit.schoolId))]
UniqueSchoolIds(vs) == {v.schoolId : v \in vs}

\* Mutation of StatusCountMap: the $match stage is missing.
StatusCountMap_NoMatch(vs, trainerId) ==
  [st \in {v.status : v \in vs} |-> Cardinality({v \in vs : v.status = st})]

\* { $match: { trainer } }, { $group: { _id: '$status', count: { $sum: 1 } } }
\* reduced to an object keyed by status.
StatusCountMap(vs, trainerId) ==
  LET mine == {v \in vs : v.trainer = trainerId} IN
  [st \in {v.status : v \in mine} |-> Cardinality({v \in mine : v.status = st})]

\* Student.countDocuments({ schoolId: { $in: uniqueSchoolIds } })
CountStudents(sts, schoolIds) ==
  Cardinality({st \in sts : st.schoolId \in schoolIds})

GC_Start(p, trainerId, hist) ==
  /\ call[p].op = "idle"
  /\ call' = [call EXCEPT ![p] =
       [op |-> "getSchoolIdsAndStudentCount", pc |-> "find",
        trainerId |-> trainerId, pre |-> Snapshot(hist)]]
  /\ UNCHANGED db

\* const visits = await LifeTrainerVisit.find({ trainer }).select('schoolId status');
GC_Find(p) ==
  /\ call[p].op = "getSchoolIdsAndStudentCount" /\ call[p].pc = "find"
  /\ LET found == {v \in visits : v.trainer = call[p].trainerId} IN
     call' = [call EXCEPT ![p] = [@ EXCEPT !.pc = "count"] @@
                [uniqueSchoolIds |-> UniqueSchoolIds(found),
                 totalSchools |-> Cardinality(UniqueSchoolIds(found))]]
  /\ UNCHANGED db

\* const totalStudents = await Student.countDocuments({...});
GC_Count(p) ==
  /\ call[p].op = "getSchoolIdsAndStudentCount" /\ call[p].pc = "count"
  /\ call' = [call EXCEPT ![p] = [@ EXCEPT !.pc = "aggregate"] @@
                [totalStudents |-> CountStudents(students, call[p].uniqueSchoolIds)]]
  /\ UNCHANGED db

\* const statusCounts = await LifeTrainerVisit.aggregate([...]); return {...}
GC_Aggregate(p) ==
  /\ call[p].op = "getSchoolIdsAndStudentCount" /\ call[p].pc = "aggregate"
  /\ Finish(p, "ok",
            [totalSchools |-> call[p].totalSchools,
             totalStudents |-> call[p].totalStudents,
             statusCounts |-> StatusCountMap(visits, call[p].trainerId)])
  /\ UNCHANGED db

\* ----------------------------------------------------------- createStudent
\* A request in slot p stores a Student document for a school (student
\* service); the request is one database write.
CreateStudent(p, schoolId) ==
  /\ call[p].op = "idle"
  /\ Cardinality(students) < MaxStudents
  /\ students' = students \cup {[_id |-> Cardinality(students) + 1,
                                 schoolId |-> schoolId]}
  /\ UNCHANGED <<visits, nextVisit, users, schools, call, bulk>>

\* --------------------------------------------------------------- bulkUpload
\* The batches a call may carry: sequences of at most MaxBatch records.
Batches ==
  UNION {[1..n -> [udisecode : Udises]] : n \in 0..MaxBatch}

\* Mutation of SchoolFound: the lookup filters on a field no document has.
SchoolFound_Never(ss, udisecode) == FALSE

\* School.findOne({ udisecode }): is there a match.
SchoolFound(ss, udisecode) ==
  \E k \in DOMAIN ss : ss[k].udisecode = udisecode

\* new School({...school, schoolId}): the schema declares no unique index, so
\* save() stores the document whatever the collection holds.
SchoolSave(ss, school, schoolId) ==
  Append(ss, [udisecode |-> school.udisecode, schoolId |-> schoolId])

\* User.create({ ..., username: schoolId, password: 'admin@123', role: 'school' })
FreshUserId(us) ==
  (CHOOSE m \in DOMAIN us \cup TrainerIds :
     \A k \in DOMAIN us \cup TrainerIds : k <= m) + 1

UserCreate(us, schoolId) ==
  us @@ (FreshUserId(us) :>
           [role |-> "school", deviceToken |-> FALSE, username |-> schoolId,
            firstName |-> 0, lastName |-> 0, mobNumber |-> 0, visits |-> <<>>])

\* Number of records of running calls that may still store a School.
PendingSchools ==
  Cardinality({qi \in BulkCalls \X (1..MaxBatch) :
                 /\ bulk[qi[1]].op = "bulkUpload" /\ bulk[qi[1]].pc = "all"
                 /\ qi[2] \in DOMAIN bulk[qi[1]].batch
                 /\ bulk[qi[1]].task[qi[2]] \in {"findOne", "save"}})

\* if (!schools || !schools.length) return { error: true, message: 'missing array' };
\* otherwise Promise.all(schools.map(async ...)) starts one task per record.
BU_Start(b, batch) ==
  /\ bulk[b].op = "idle"
  /\ Len(schools) + PendingSchools
       + Cardinality({i \in DOMAIN batch :
                        ~SchoolFound(schools, batch[i].udisecode)}) <= MaxSchools
  /\ bulk' = [bulk EXCEPT ![b] =
       IF Len(batch) = 0
       THEN [op |-> "bulkUpload", pc |-> "done", batch |-> batch,
             result |-> [error |-> TRUE]]
       ELSE [op |-> "bulkUpload", pc |-> "all", batch |-> batch,
             task |-> [i \in DOMAIN batch |-> "findOne"],
             schoolId |-> [i \in DOMAIN batch |-> ""],
             records |-> <<>>, dups |-> <<>>,
             pre |-> [schools |-> schools, users |-> users]]]
  /\ UNCHANGED <<visits, nextVisit, users, students, schools, call>>

\* const schoolFound = await School.findOne({ udisecode: school.udisecode });
\* if (schoolFound) dups.push(school); else schoolId = generateSchoolId()
BU_FindOne(b, i) ==
  /\ bulk[b].op = "bulkUpload" /\ bulk[b].pc = "all"
  /\ i \in DOMAIN bulk[b].batch /\ bulk[b].task[i] = "findOne"
  /\ IF SchoolFound(schools, bulk[b].batch[i].udisecode)
     THEN bulk' = [bulk EXCEPT ![b].dups = Append(@, bulk[b].batch[i]),
                               ![b].task[i] = "done"]
     ELSE \E id \in GeneratedIds :
            bulk' = [bulk EXCEPT ![b].schoolId[i] = id, ![b].task[i] = "save"]
  /\ UNCHANGED <<visits, nextVisit, users, students, schools, call>>

\* record = await record.save(); if (record) records.push(school);
BU_Save(b, i) ==
  /\ bulk[b].op = "bulkUpload" /\ bulk[b].pc = "all"
  /\ i \in DOMAIN bulk[b].batch /\ bulk[b].task[i] = "save"
  /\ schools' = SchoolSave(schools, bulk[b].batch[i], bulk[b].schoolId[i])
  /\ bulk' = [bulk EXCEPT ![b].records = Append(@, bulk[b].batch[i]),
                          ![b].task[i] = "create"]
  /\ UNCHANGED <<visits, nextVisit, users, students, call>>

\* await User.create({...});
BU_Create(b, i) ==
  /\ bulk[b].op = "bulkUpload" /\ bulk[b].pc = "all"
  /\ i \in DOMAIN bulk[b].batch /\ bulk[b].task[i] = "create"
  /\ users' = UserCreate(users, bulk[b].schoolId[i])
  /\ bulk' = [bulk EXCEPT ![b].task[i] = "done"]
  /\ UNCHANGED <<visits, nextVisit, students, schools, call>>

\* Promise.all resolves; return { nonduplicates, duplicates };
BU_Finish(b) ==
  /\ bulk[b].op = "bulkUpload" /\ bulk[b].pc = "all"
  /\ \A i \in DOMAIN bulk[b].batch : bulk[b].task[i] = "done"
  /\ bulk' = [bulk EXCEPT ![b] = [@ EXCEPT !.pc = "done"] @@
       [result |-> [error |-> FALSE,
                    totalDuplicates |-> Len(bulk[b].dups),
                    duplicates |-> bulk[b].dups,
                    totalNonDuplicates |-> Len(bulk[b].records),
                    nonduplicates |-> bulk[b].records]]]
  /\ UNCHANGED <<visits, nextVisit, users, students, schools, call>>

\* The response is sent.
BU_Return(b) ==
  /\ bulk[b].op = "bulkUpload" /\ bulk[b].pc = "done"
  /\ bulk' = [bulk EXCEPT ![b] = Idle]
  /\ UNCHANGED <<visits, nextVisit, users, students, schools, call>>

\* --------------------------------------------------------- getTrainerVisits
\* No status argument (undefined: falsy).
NoStatus == ""

\* { $match: { trainer, status } } when a status is passed, { $match: { trainer } }
\* otherwise.
TrainerMatch(vs, trainerId, status) ==
  {v \in vs : /\ v.trainer = trainerId
              /\ (Truthy(status) => v.status = status)}

\* { $lookup: { from: 'schools', localField: 'schoolId', foreignField:
\* 'schoolId', as: 'school' } }: the School documents of a visit, in order.
LookupSchools(ss, v) == SelectSeq(ss, LAMBDA sc : sc.schoolId = v.schoolId)

\* { $unwind: '$school' }, { $project: {...} } on one visit: one entry per
\* element of its school array, none when the array is empty.
Unwind(v, found) ==
  [k \in DOMAIN found |->
     [_id |-> v._id, visitDate |-> v.visitDate, time |-> v.time,
      status |-> v.status, school |-> found[k]]]

\* LifeTrainerVisit.aggregate(pipeline) over the matched visits in _id order.
RECURSIVE Aggregate(_, _)
Aggregate(matched, ss) ==
  IF matched = <<>> THEN <<>>
  ELSE Unwind(Head(matched), LookupSchools(ss, Head(matched)))
         \o Aggregate(Tail(matched), ss)

GT_Start(p, trainerId, status) ==
  /\ call[p].op = "idle"
  /\ call' = [call EXCEPT ![p] =
       [op |-> "getTrainerVisits", pc |-> "aggregate",
        trainerId |-> trainerId, status |-> status]]
  /\ UNCHANGED db

\* const visits = await LifeTrainerVisit.aggregate(pipeline); return visits;
GT_Aggregate(p) ==
  /\ call[p].op = "getTrainerVisits" /\ call[p].pc = "aggregate"
  /\ Finish(p, "ok",
            Aggregate(SortById(TrainerMatch(visits, call[p].trainerId,
                                            call[p].status)), schools))
  /\ UNCHANGED db

\* ------------------------------------------------------------------ return
\* The response is sent and the request slot is free again.
Return(p) ==
  /\ call[p].op # "idle" /\ call[p].pc = "done"
  /\ call' = [call EXCEPT ![p] = Idle]
  /\ UNCHANGED db

\* ----------------------------------------------------------- specifications
\* Concurrent scheduleVisit and deleteVisit requests on one school: any slot
\* may be entered and stepped at any time.
ConcTrainers == {1, 2}
ConcSchools == {"SCH1"}
ConcDates == {"2024-01-10"}

Next ==
  \E p \in Procs :
    \/ \E t \in ConcTrainers, s \in ConcSchools, d \in ConcDates, tm \in Times :
         SV_Start(p, t, s, d, tm, FALSE)
    \/ \E v \in VisitIds : DV_Start(p, v, FALSE)
    \/ SV_FindOne(p) \/ SV_VisitSave(p) \/ SV_FindTrainer(p)
    \/ SV_Notify(p) \/ SV_TrainerSave(p)
    \/ DV_FindById(p) \/ DV_FindTrainer(p) \/ DV_TrainerSave(p) \/ DV_Remove(p)
    \/ Return(p)

Spec == Init /\ [][Next]_vars

\* One request at a time (slot 1 only), with the state before each call kept:
\* scheduleVisit, deleteVisit and getVisitById.
SerialSchools == {"SCH1"}

NextSerial ==
  \/ \E t \in TrainerIds, s \in SerialSchools, d \in VisitDates, tm \in Times :
       SV_Start(1, t, s, d, tm, TRUE)
  \/ \E v \in VisitIds : DV_Start(1, v, TRUE)
  \/ \E v \in VisitIds : GetVisitById(1, v)
  \/ SV_FindOne(1) \/ SV_VisitSave(1) \/ SV_FindTrainer(1)
  \/ SV_Notify(1) \/ SV_TrainerSave(1)
  \/ DV_FindById(1) \/ DV_FindTrainer(1) \/ DV_TrainerSave(1) \/ DV_Remove(1)
  \/ Return(1)

SpecSerial == Init /\ [][NextSerial]_vars

\* One request at a time: scheduleVisit for one trainer and updateVisitById.
UpdateTrainers == {2}
UpdateBodies ==
  { [inTime |-> "x", outTime |-> "x", inDate |-> "x"],
    [outDate |-> "x", file |-> "x", file1 |-> "x"],
    [file |-> ""],
    [status |-> "scheduled"],
    [status |-> "completed"] }

NextUpdate ==
  \/ \E t \in UpdateTrainers, s \in SerialSchools, d \in VisitDates, tm \in Times :
       SV_Start(1, t, s, d, tm, TRUE)
  \/ \E s \in SchoolIds, t \in UpdateTrainers, b \in UpdateBodies :
       UV_Start(1, s, t, b, TRUE)
  \/ SV_FindOne(1) \/ SV_VisitSave(1) \/ SV_FindTrainer(1) \/ SV_TrainerSave(1)
  \/ UV_FindOne(1) \/ UV_Save(1) \/ UV_SaveStatus(1)
  \/ Return(1)

SpecUpdate == Init /\ [][NextUpdate]_vars

\* One request at a time: getSchoolIdsAndStudentCount over visits that
\* scheduleVisit created and updateVisitById completed, and students that
\* were created.  Trainer 2 may visit either school on either date; trainer 3
\* (no User) has one slot.
CountSlots ==
  {<<2, s, d>> : s \in SchoolIds, d \in VisitDates} \cup {<<3, "SCH1", "2024-01-10">>}
ReportTrainers == {2, 3}
ReportBodies ==
  { [inTime |-> "x", outTime |-> "x", inDate |-> "x",
     outDate |-> "x", file |-> "x", file1 |-> "x"] }

NextCount ==
  \/ \E sl \in CountSlots, tm \in Times :
       SV_Start(1, sl[1], sl[2], sl[3], tm, FALSE)
  \/ \E s \in SchoolIds, b \in ReportBodies : UV_Start(1, s, 2, b, FALSE)
  \/ \E s \in SchoolIds : CreateStudent(1, s)
  \/ \E t \in ReportTrainers : GC_Start(1, t, TRUE)
  \/ SV_FindOne(1) \/ SV_VisitSave(1) \/ SV_FindTrainer(1) \/ SV_TrainerSave(1)
  \/ UV_FindOne(1) \/ UV_Save(1) \/ UV_SaveStatus(1)
  \/ GC_Find(1) \/ GC_Count(1) \/ GC_Aggregate(1)
  \/ Return(1)

SpecCount == Init /\ [][NextCount]_vars

\* One request at a time: getVisitsBySchoolId over visits that scheduleVisit
\* created for trainers with and without a User.
NextSchoolVisits ==
  \/ \E t \in ReportTrainers, s \in SchoolIds, d \in VisitDates, tm \in Times :
       SV_Start(1, t, s, d, tm, FALSE)
  \/ \E s \in SchoolIds : GS_Start(1, s)
  \/ SV_FindOne(1) \/ SV_VisitSave(1) \/ SV_FindTrainer(1) \/ SV_TrainerSave(1)
  \/ GS_Find(1) \/ GS_Loop(1)
  \/ Return(1)

SpecSchoolVisits == Init /\ [][NextSchoolVisits]_vars

\* bulkUpload, one call at a time; the tasks of its records interleave.
NextBulk ==
  \/ \E batch \in Batches : BU_Start(1, batch)
  \/ \E i \in 1..MaxBatch : BU_FindOne(1, i) \/ BU_Save(1, i) \/ BU_Create(1, i)
  \/ BU_Finish(1)
  \/ BU_Return(1)

SpecBulk == Init /\ [][NextBulk]_vars

\* bulkUpload calls that run concurrently.
ConcUdises == {"U1"}
ConcBatches ==
  {batch \in Batches : \A i \in DOMAIN batch : batch[i].udisecode \in ConcUdises}

NextBulkConc ==
  \E b \in BulkCalls :
    \/ \E batch \in ConcBatches : BU_Start(b, batch)
    \/ \E i \in 1..MaxBatch : BU_FindOne(b, i) \/ BU_Save(b, i) \/ BU_Create(b, i)
    \/ BU_Finish(b)
    \/ BU_Return(b)

SpecBulkConc == Init /\ [][NextBulkConc]_vars

\* One request at a time: getTrainerVisits over visits that scheduleVisit
\* created and updateVisitById completed, and schools that bulkUpload stored
\* one record at a time (two schools may have drawn the same schoolId).
JoinTrainers == {2}
JoinDates == {"2024-01-10"}
JoinUdises == {"U1", "U2"}
JoinBatches ==
  {batch \in Batches : /\ Len(batch) = 1
                       /\ batch[1].udisecode \in JoinUdises}
JoinStatuses == {NoStatus, "scheduled", "completed"}

NextTrainerVisits ==
  \/ /\ bulk[1].op = "idle"
     /\ \/ \E t \in JoinTrainers, s \in SchoolIds, d \in JoinDates, tm \in Times :
             SV_Start(1, t, s, d, tm, FALSE)
        \/ \E s \in SchoolIds, t \in JoinTrainers, b \in ReportBodies :
             UV_Start(1, s, t, b, FALSE)
        \/ \E t \in JoinTrainers, st \in JoinStatuses : GT_Start(1, t, st)
  \/ /\ call[1].op = "idle"
     /\ \E batch \in JoinBatches : BU_Start(1, batch)
  \/ SV_FindOne(1) \/ SV_VisitSave(1) \/ SV_FindTrainer(1) \/ SV_TrainerSave(1)
  \/ UV_FindOne(1) \/ UV_Save(1) \/ UV_SaveStatus(1)
  \/ GT_Aggregate(1)
  \/ Return(1)
  \/ BU_FindOne(1, 1) \/ BU_Save(1, 1) \/ BU_Create(1, 1)
  \/ BU_Finish(1)
  \/ BU_Return(1)

SpecTrainerVisits == Init /\ [][NextTrainerVisits]_vars

\* ------------------------------------------------------------------ claims
\* A finished call of handler op in slot 1 (the one-request-at-a-time slot).
Done(op) == call[1].op = op /\ call[1].pc = "done"

\* ------------------------------------------------------------------- C1
\* C1: with one request at a time, a scheduleVisit call for an existing
\* trainer on a slot that no stored visit holds succeeds (this is the first
\* call, and the later call on another date), a call on a slot that a stored
\* visit holds fails with CONFLICT and writes nothing, and either way exactly
\* one visit with that tuple is stored afterwards.
C1_ScheduleTwice ==
  (Done("scheduleVisit") /\ call[1].trainerId \in DOMAIN call[1].pre.users) =>
    LET c == call[1]
        before == SlotMatches(c.pre.visits, c.trainerId, c.schoolId, c.visitDate, c.time)
        after == SlotMatches(visits, c.trainerId, c.schoolId, c.visitDate, c.time)
    IN /\ before = {} => c.res = "ok"
       /\ before # {} => /\ c.res = "CONFLICT"
                         /\ visits = c.pre.visits
                         /\ users = c.pre.users
       /\ Cardinality(after) = 1

\* ------------------------------------------------------------------- C2
\* C2: under any interleaving of concurrent scheduleVisit requests no two
\* stored visits have the same (trainer, schoolId, visitDate, time).
C2_UniqueSlot ==
  \A v \in visits, w \in visits :
    (/\ v.trainer = w.trainer /\ v.schoolId = w.schoolId
     /\ v.visitDate = w.visitDate /\ v.time = w.time) => v._id = w._id

\* ------------------------------------------------------------------- C3
\* C3: whenever no call is in progress, visit id V is in trainer T's visits
\* array if and only if a stored visit V has trainer T.
C3_BothSides ==
  (\A p \in Procs : call[p].op = "idle" \/ call[p].pc = "done") =>
    \A t \in TrainerIds, id \in VisitIds :
      (t \in DOMAIN users /\ id \in Range(users[t].visits))
        <=> (\E v \in visits : v._id = id /\ v.trainer = t)

\* ------------------------------------------------------------------- C4
\* C4: with one request at a time, deleteVisit(V) of a stored visit whose
\* trainer exists succeeds, and then V is not in that trainer's visits array
\* and getVisitById(V) finds nothing; when V is not stored or its trainer
\* does not exist it fails with NOT_FOUND and the visits and the users are
\* what they were before the call.
C4_DeleteVisit ==
  Done("deleteVisit") =>
    LET c == call[1]
        old == FindById(c.pre.visits, c.visitId)
    IN IF old # Null /\ old.trainer \in DOMAIN c.pre.users
       THEN /\ c.res = "ok"
            /\ c.visitId \notin Range(users[old.trainer].visits)
            /\ FindById(visits, c.visitId) = Null
       ELSE /\ c.res = "NOT_FOUND"
            /\ visits = c.pre.visits
            /\ users = c.pre.users

\* A successful deleteVisit of a visit that was in its trainer's array.
C4_Witness ==
  /\ Done("deleteVisit") /\ call[1].res = "ok"
  /\ LET old == FindById(call[1].pre.visits, call[1].visitId)
     IN call[1].visitId \in Range(call[1].pre.users[old.trainer].visits)

\* ------------------------------------------------------------------- C5
\* The stored visit that a finished updateVisitById call looked up, and the
\* same visit before the call.
C5_Now == FindById(visits, call[1].result._id)
C5_Before == FindById(call[1].pre.visits, call[1].result._id)

\* All six attendance fields of a document are non-empty.
C5_AllSix(doc) ==
  /\ doc.inTime # "" /\ doc.outTime # "" /\ doc.inDate # ""
  /\ doc.outDate # "" /\ doc.file # "" /\ doc.file1 # ""

\* C5 as stated: after every completed updateVisitById call the status is
\* 'completed' if and only if all six attendance fields are non-empty, and
\* when one of them is empty the status is what it was before the call.
C5_CompletedIff ==
  (Done("updateVisitById") /\ call[1].res = "ok") =>
    /\ C5_Now.status = "completed" <=> C5_AllSix(C5_Now)
    /\ ~C5_AllSix(C5_Now) => C5_Now.status = C5_Before.status

\* C5 amended: after every completed updateVisitById call, if all six
\* attendance fields are non-empty the status is 'completed'; otherwise the
\* status is the one the body carries, if it carries one, and else what it
\* was before the call (a completed visit stays completed when a field is
\* cleared).
C5_CompletedWhenAll ==
  (Done("updateVisitById") /\ call[1].res = "ok") =>
    IF C5_AllSix(C5_Now)
    THEN C5_Now.status = "completed"
    ELSE C5_Now.status =
           IF "status" \in DOMAIN call[1].updateBody
           THEN call[1].updateBody.status
           ELSE C5_Before.status

\* An update that clears a field of a completed visit, which stays completed.
C5_Witness ==
  /\ Done("updateVisitById") /\ call[1].res = "ok"
  /\ C5_AllSix(C5_Before) /\ C5_Before.status = "completed"
  /\ ~C5_AllSix(C5_Now) /\ C5_Now.status = "completed"

\* ------------------------------------------------------------------- C6
\* The records of a finished bulkUpload call, and what it added.
C6_N == Len(bulk[1].batch)
C6_Dups ==
  {i \in DOMAIN bulk[1].batch :
     \E k \in DOMAIN bulk[1].pre.schools :
       bulk[1].pre.schools[k].udisecode = bulk[1].batch[i].udisecode}
C6_K == Cardinality(C6_Dups)
C6_NewSchools == (Len(bulk[1].pre.schools) + 1)..Len(schools)
C6_NewUsers == DOMAIN users \ DOMAIN bulk[1].pre.users
C6_Distinct ==
  \A i, j \in DOMAIN bulk[1].batch :
    bulk[1].batch[i].udisecode = bulk[1].batch[j].udisecode => i = j

\* C6: a bulkUpload batch of N >= 1 records with pairwise distinct
\* udisecodes, K of them stored already, run alone, reports K duplicates and
\* N-K non-duplicates, adds exactly one School per new record and none for a
\* duplicate, and adds exactly one User (role 'school', username the school's
\* generated schoolId) per new school.
C6_BulkCounts ==
  (/\ bulk[1].op = "bulkUpload" /\ bulk[1].pc = "done"
   /\ C6_N >= 1 /\ C6_Distinct) =>
    /\ bulk[1].result.error = FALSE
    /\ bulk[1].result.totalDuplicates = C6_K
    /\ bulk[1].result.totalNonDuplicates = C6_N - C6_K
    /\ Len(schools) = Len(bulk[1].pre.schools) + C6_N - C6_K
    /\ \A k \in DOMAIN bulk[1].pre.schools : schools[k] = bulk[1].pre.schools[k]
    /\ \A i \in DOMAIN bulk[1].batch :
         Cardinality({k \in C6_NewSchools :
                        schools[k].udisecode = bulk[1].batch[i].udisecode})
           = IF i \in C6_Dups THEN 0 ELSE 1
    /\ \A u \in DOMAIN bulk[1].pre.users : users[u] = bulk[1].pre.users[u]
    /\ Cardinality(C6_NewUsers) = C6_N - C6_K
    /\ \A u \in C6_NewUsers : users[u].role = "school"
    /\ \A id \in GeneratedIds :
         Cardinality({u \in C6_NewUsers : users[u].username = id})
           = Cardinality({k \in C6_NewSchools : schools[k].schoolId = id})

\* A finished batch of two distinct records, one stored before and one new.
C6_Witness ==
  /\ bulk[1].op = "bulkUpload" /\ bulk[1].pc = "done"
  /\ C6_N = 2 /\ C6_Distinct /\ C6_K = 1
  /\ bulk[1].result.totalNonDuplicates = 1

\* ------------------------------------------------------------------- C7
\* C7: no two stored School documents have the same udisecode.
C7_UniqueUdise ==
  \A i, j \in DOMAIN schools :
    schools[i].udisecode = schools[j].udisecode => i = j

\* ------------------------------------------------------------------- C8
RECURSIVE C8_Sum(_, _)
C8_Sum(f, S) ==
  IF S = {} THEN 0
  ELSE LET x == CHOOSE x \in S : TRUE IN f[x] + C8_Sum(f, S \ {x})

C8_Mine == {v \in visits : v.trainer = call[1].trainerId}
C8_Schools == {s \in SchoolIds : \E v \in C8_Mine : v.schoolId = s}
C8_StudentsOf == [s \in SchoolIds |-> Cardinality({st \in students : st.schoolId = s})]

\* C8: getSchoolIdsAndStudentCount(T), run alone, returns the number of
\* distinct schools among T's visits, the number of students of those
\* schools with each school counted once, and status counts that sum to the
\* number of T's visits.
C8_Counts ==
  Done("getSchoolIdsAndStudentCount") =>
    LET r == call[1].value IN
    /\ r.totalSchools = Cardinality(C8_Schools)
    /\ r.totalStudents = C8_Sum(C8_StudentsOf, C8_Schools)
    /\ C8_Sum(r.statusCounts, DOMAIN r.statusCounts) = Cardinality(C8_Mine)

\* Three visits of the trainer to two schools (A, B, A), two students in
\* the school visited twice, and visits in two different statuses.
C8_Witness ==
  /\ Done("getSchoolIdsAndStudentCount")
  /\ Cardinality(C8_Mine) = 3 /\ call[1].value.totalSchools = 2
  /\ \E s \in C8_Schools :
       /\ Cardinality({v \in C8_Mine : v.schoolId = s}) = 2
       /\ C8_StudentsOf[s] = 2
  /\ call[1].value.totalStudents = 2
  /\ Cardinality(DOMAIN call[1].value.statusCounts) = 2

\* ------------------------------------------------------------------- C9
\* C9: scheduleVisit with a trainerId that resolves to no User fails with
\* NOT_FOUND and leaves the stored state as it was before the call.
C9_MissingTrainer ==
  (Done("scheduleVisit") /\ call[1].trainerId \notin DOMAIN call[1].pre.users) =>
    /\ call[1].res = "NOT_FOUND"
    /\ visits = call[1].pre.visits
    /\ users = call[1].pre.users

\* ------------------------------------------------------------------ C10
\* C10: getVisitsBySchoolId(S) fails with NOT_FOUND when no visit of S is
\* stored; otherwise it returns one entry per visit of S, and the counselor
\* of every entry whose trainer is a User with a declared role carries that
\* trainer's firstName, lastName and mobNumber.
C10_Counselors ==
  Done("getVisitsBySchoolId") =>
    LET c == call[1]
        mine == {v \in visits : v.schoolId = c.schoolId}
    IN IF mine = {}
       THEN c.res = "NOT_FOUND"
       ELSE /\ c.res = "ok"
            /\ Len(c.value) = Cardinality(mine)
            /\ {c.value[i].visit : i \in DOMAIN c.value} = mine
            /\ \A i \in DOMAIN c.value :
                 LET t == c.value[i].visit.trainer IN
                 (t \in DOMAIN users /\ users[t].role \in Roles) =>
                   c.value[i].counselor =
                     [firstName |-> users[t].firstName,
                      lastName |-> users[t].lastName,
                      mobNumber |-> users[t].mobNumber]

\* ------------------------------------------------------------------ C11
\* The visits of the trainer of a finished getTrainerVisits call that have the
\* status it was given, if it was given one.
C11_Matching ==
  {v \in visits : /\ v.trainer = call[1].trainerId
                  /\ (call[1].status # "" => v.status = call[1].status)}

\* C11: getTrainerVisits(T, status?) returns exactly one entry for each
\* stored visit of T (with the given status when one is passed), also when a
\* visit's schoolId matches no School document or more than one.
C11_OneEntryPerVisit ==
  Done("getTrainerVisits") =>
    /\ Len(call[1].value) = Cardinality(C11_Matching)
    /\ \A v \in C11_Matching :
         Cardinality({k \in DOMAIN call[1].value : call[1].value[k]._id = v._id}) = 1

\* ------------------------------------------------------------------ C12
\* C12: in every reachable state, between the single database writes of
\* scheduleVisit and deleteVisit and under every interleaving of concurrent
\* calls, each visit id in a trainer's stored visits array is the _id of a
\* stored LifeTrainerVisit document.
C12_NoDangling ==
  \A t \in DOMAIN users :
    \A id \in Range(users[t].visits) : \E v \in visits : v._id = id

\* ------------------------------------------------------------------ C13
\* The visits of the (schoolId, trainer) pair of a finished updateVisitById
\* call, as stored when the call was entered.
C13_OfPair ==
  {v \in call[1].pre.visits : /\ v.schoolId = call[1].schoolId
                              /\ v.trainer = call[1].trainer}

\* C13: the visit updateVisitById(schoolId, trainer, updateBody) looks up is
\* unique: there is at most one stored visit per (schoolId, trainer) pair; the
\* call changes that one visit only and leaves every other visit as it was,
\* and with no visit of the pair it fails with NOT_FOUND and changes nothing.
C13_UniquePair ==
  Done("updateVisitById") =>
    /\ Cardinality(C13_OfPair) <= 1
    /\ C13_OfPair = {} =>
         /\ call[1].res = "NOT_FOUND"
         /\ visits = call[1].pre.visits
         /\ users = call[1].pre.users
    /\ C13_OfPair # {} =>
         /\ call[1].res = "ok"
         /\ \A v \in call[1].pre.visits : v \notin C13_OfPair => v \in visits
         /\ Cardinality(visits) = Cardinality(call[1].pre.visits)
         /\ users = call[1].pre.users

====
